---- MODULE Spec2Model ----
(***************************************************************************)
(* Model of src/app.py: a Flask application that keeps a registry of       *)
(* collections in MongoDB (collections_meta), the points of each           *)
(* collection in Qdrant (qdrant_client), and serves create_collection,     *)
(* upload (ingest), clear_collection, view_collection (scroll) and index   *)
(* (search).                                                               *)
(*                                                                         *)
(* Every handler is cut at its external calls: one action per call, the    *)
(* local code that follows the call being part of that action.  Each       *)
(* external call either answers or fails.  Requests run in worker slots;   *)
(* env.workers is the number of requests the server handles at a time,     *)
(* env.faults whether external calls can fail, env.files the uploads sent. *)
(***************************************************************************)
EXTENDS Integers, Sequences, FiniteSets, TLC

VARIABLES
    collections_meta,  \* app.py:59  the registry: a list of documents, in insertion order
    qdrant,            \* app.py:64  vector store: collection name -> (point id -> point)
    tempfile,          \* app.py:248 the file "temp.pdf" in the working directory
    req,               \* the handler frame of each worker slot
    env,               \* the deployment: workers, whether services fail, the uploads sent
    hist,              \* history: per collection, what has been done to its index so far
    started            \* history: how many requests have been taken, where env limits them

vars == <<collections_meta, qdrant, tempfile, req, env, hist, started>>

-----------------------------------------------------------------------------
(* Bounds of the model *)

\* worker slots of the concurrent server
NumReqs == 2

\* uploads are not started once a docs_count could pass this value
MaxDocsCount == 4

\* requests taken in a concurrent run
MaxRequests == 3

-----------------------------------------------------------------------------
(* Program constants *)

CHUNK_SIZE == 1000
CHUNK_OVERLAP == 200
ALL_LIMIT == 5
ALL_TOP == 10
SINGLE_LIMIT == 10
SCROLL_LIMIT == 20

ALLOWED_EXTENSIONS == {<<"p", "d", "f">>, <<"t", "x", "t">>}

-----------------------------------------------------------------------------
(* Generic helpers *)

Min(a, b) == IF a <= b THEN a ELSE b

Range(s) == {s[i] : i \in DOMAIN s}

RECURSIVE SumLens(_)
SumLens(pages) ==
    IF pages = <<>> THEN 0 ELSE Head(pages).len + SumLens(Tail(pages))

-----------------------------------------------------------------------------
(* File names are sequences of characters *)

Lower(ch) ==
    CASE ch = "P" -> "p" [] ch = "D" -> "d" [] ch = "F" -> "f"
      [] ch = "T" -> "t" [] ch = "X" -> "x" [] ch = "E" -> "e"
      [] OTHER -> ch

LowerStr(s) == [i \in DOMAIN s |-> Lower(s[i])]

\* position of the last "." of s, 0 when there is none
LastDot(s) ==
    LET dots == {i \in DOMAIN s : s[i] = "."}
    IN  IF dots = {} THEN 0 ELSE CHOOSE i \in dots : \A j \in dots : j <= i

\* mutant: every filename is allowed
allowed_any(filename) == TRUE

\* filename.rsplit('.', 1)[1].lower() in ALLOWED_EXTENSIONS
allowed_file(filename) ==
    /\ LastDot(filename) # 0
    /\ LowerStr(SubSeq(filename, LastDot(filename) + 1, Len(filename)))
           \in ALLOWED_EXTENSIONS

\* filename.lower().endswith('.pdf')
EndsWithPdf(filename) ==
    /\ Len(filename) >= 4
    /\ LowerStr(SubSeq(filename, Len(filename) - 3, Len(filename)))
           = <<".", "p", "d", "f">>

\* werkzeug's secure_filename on the characters used here: path separators
\* and blanks become "_" separators (runs collapse, none at the ends), then
\* leading and trailing "." and "_" are stripped.
IsSep(ch) == ch \in {" ", "/"}

RECURSIVE JoinWords(_, _)
JoinWords(s, pendingSep) ==
    IF s = <<>> THEN <<>>
    ELSE IF IsSep(Head(s)) THEN JoinWords(Tail(s), TRUE)
    ELSE (IF pendingSep THEN <<"_">> ELSE <<>>) \o <<Head(s)>>
             \o JoinWords(Tail(s), FALSE)

RECURSIVE StripLeft(_)
StripLeft(s) ==
    IF s # <<>> /\ Head(s) \in {".", "_"} THEN StripLeft(Tail(s)) ELSE s

RECURSIVE StripRight(_)
StripRight(s) ==
    IF s # <<>> /\ s[Len(s)] \in {".", "_"}
    THEN StripRight(SubSeq(s, 1, Len(s) - 1)) ELSE s

secure_filename(filename) == StripRight(StripLeft(JoinWords(filename, FALSE)))

-----------------------------------------------------------------------------
(* Uploaded bytes, text extraction and chunking *)

\* The bytes of an upload: an identity, whether they decode as UTF-8, and
\* the pages they hold (a plain-text file is one page).  A page is the
\* number of characters its text has and whether they are all whitespace;
\* a page whose extract_text() gives None has length 0.
NoText == [src |-> "", len |-> 0, blank |-> TRUE]

\* content.decode('utf-8')
DecodeUtf8(bytes) ==
    [src |-> bytes.id, len |-> bytes.pages[1].len, blank |-> bytes.pages[1].blank]

\* extract_text_from_pdf: "\n".join(page.extract_text() or '')
extract_text_from_pdf(bytes) ==
    [src   |-> bytes.id,
     len   |-> SumLens(bytes.pages) + Len(bytes.pages) - 1,
     blank |-> \A i \in DOMAIN bytes.pages :
                  bytes.pages[i].blank \/ bytes.pages[i].len = 0]

\* not text.strip()
StripIsEmpty(text) == text.blank \/ text.len = 0

\* RecursiveCharacterTextSplitter(chunk_size, chunk_overlap).split_text on a
\* text without separators: windows of chunk_size characters, each starting
\* chunk_size - chunk_overlap after the one before.
NumChunks(len) ==
    IF len <= CHUNK_SIZE THEN 1
    ELSE LET step == CHUNK_SIZE - CHUNK_OVERLAP
             rest == len - CHUNK_SIZE
         IN  1 + (rest + step - 1) \div step

split_text(text) ==
    [i \in 1..NumChunks(text.len) |->
        LET from == (i - 1) * (CHUNK_SIZE - CHUNK_OVERLAP)
        IN  [src |-> text.src, from |-> from,
             to |-> Min(text.len, from + CHUNK_SIZE)]]

\* Document(page_content=t, metadata={'source': filename})
Documents(text, filename) ==
    LET docs == split_text(text)
    IN  [i \in DOMAIN docs |->
            [page_content |-> docs[i], metadata |-> [source |-> filename]]]

-----------------------------------------------------------------------------
(* Inputs *)

\* the collection the requests create, fill and clear
Names == {"docs"}

\* a name no request creates
Ghost == "ghost"

\* a collection that exists when the server starts and that no request names
Bystander == "kb"

Descriptions == {"", "papers"}

\* datetime.datetime.utcnow() as the requests see it
Times == {1, 2}

TxtA   == <<"a", ".", "t", "x", "t">>
TxtN   == <<"m", "y", " ", "n", ".", "T", "X", "T">>
PdfR   == <<"r", ".", "p", "d", "f">>
PdfS   == <<"s", ".", "P", "D", "F">>
TxtE   == <<"e", ".", "t", "x", "t">>
TxtB   == <<"b", ".", "t", "x", "t">>
PdfW   == <<"w", ".", "p", "d", "f">>
ExeX   == <<"x", ".", "e", "x", "e">>
NoExt  == <<"R", "E", "A", "D">>

Page(n) == [len |-> n, blank |-> FALSE]

Files ==
    { [filename |-> TxtA,  bytes |-> [id |-> "A", utf8 |-> TRUE,  pages |-> <<Page(2500)>>]],
      [filename |-> TxtN,  bytes |-> [id |-> "N", utf8 |-> TRUE,  pages |-> <<Page(900)>>]],
      [filename |-> PdfR,  bytes |-> [id |-> "R", utf8 |-> FALSE, pages |-> <<Page(1200), Page(0)>>]],
      [filename |-> PdfS,  bytes |-> [id |-> "S", utf8 |-> FALSE, pages |-> <<Page(300)>>]],
      [filename |-> TxtE,  bytes |-> [id |-> "E", utf8 |-> TRUE,  pages |-> <<[len |-> 3, blank |-> TRUE]>>]],
      [filename |-> TxtB,  bytes |-> [id |-> "B", utf8 |-> FALSE, pages |-> <<Page(40)>>]],
      [filename |-> PdfW,  bytes |-> [id |-> "W", utf8 |-> FALSE,
                                      pages |-> <<[len |-> 0, blank |-> TRUE],
                                                  [len |-> 2, blank |-> TRUE]>>]],
      [filename |-> ExeX,  bytes |-> [id |-> "X", utf8 |-> FALSE, pages |-> <<Page(40)>>]],
      [filename |-> NoExt, bytes |-> [id |-> "D", utf8 |-> TRUE,  pages |-> <<Page(40)>>]] }

\* the uploads of the concurrent runs: a text file and two PDF files
ConcurrentFiles == {f \in Files : f.bytes.id \in {"N", "R", "S"}}

NoFile == [filename |-> <<>>, bytes |-> [id |-> "", utf8 |-> TRUE, pages |-> <<>>]]

-----------------------------------------------------------------------------
(* The embedding service and the similarity of the vector store.  Both are
   external; the model makes them deterministic functions of the text, as
   the services are: Embed gives every text a point of a small integer
   plane, Score falls with the distance of two such points. *)

SrcCode(src) ==
    CASE src = "A" -> 1 [] src = "N" -> 4 [] src = "R" -> 6 [] src = "S" -> 2
      [] src = "G" -> 3 [] src = "q1" -> 2 [] src = "q2" -> 5 [] OTHER -> 0

Embed(t) == <<SrcCode(t.src), (t.from \div (CHUNK_SIZE - CHUNK_OVERLAP)) % 4>>

Abs(x) == IF x < 0 THEN -x ELSE x

Score(qv, v) == 20 - (Abs(qv[1] - v[1]) + 2 * Abs(qv[2] - v[2]))

\* get_mistral_embeddings: one vector per text, in the order of the texts
get_embeddings(texts) == [i \in DOMAIN texts |-> Embed(texts[i])]

-----------------------------------------------------------------------------
(* The registry: collections_meta *)

\* collections_meta.find({'name': name}): positions of the matching documents
Matching(meta, name) == {i \in DOMAIN meta : meta[i].name = name}

Registered(meta, name) == Matching(meta, name) # {}

FirstMatch(meta, name) ==
    CHOOSE i \in Matching(meta, name) : \A j \in Matching(meta, name) : i <= j

\* find_one({'name': name}); used where a document matches
find_one(meta, name) == meta[FirstMatch(meta, name)]

\* docs_count as the registry reports it for name
DocsCount(meta, name) == find_one(meta, name).docs_count

\* mutant: $set where the code has $inc
update_one_set(meta, name, by) ==
    IF ~Registered(meta, name) THEN meta
    ELSE [meta EXCEPT ![FirstMatch(meta, name)].docs_count = by]

\* update_one({'name': name}, {'$inc': {'docs_count': by}}): the store adds
\* `by` to the first matching document in one step; nothing matches, nothing changes
update_one_inc(meta, name, by) ==
    IF ~Registered(meta, name) THEN meta
    ELSE [meta EXCEPT ![FirstMatch(meta, name)].docs_count = @ + by]

\* update_one({'name': name}, {'$set': {'docs_count': 0}})
update_one_set0(meta, name) ==
    IF ~Registered(meta, name) THEN meta
    ELSE [meta EXCEPT ![FirstMatch(meta, name)].docs_count = 0]

\* lines 198-204: insert_one(meta)
insert_one(meta, name, description, created_at) ==
    Append(meta, [name |-> name, description |-> description,
                  created_at |-> created_at, docs_count |-> 0])

-----------------------------------------------------------------------------
(* The vector store: qdrant_client *)

NoPoints == [i \in {} |-> 0]

\* recreate_collection: the collection is dropped if it exists and created empty
recreate_collection(q, name) ==
    [c \in DOMAIN q \cup {name} |-> IF c = name THEN NoPoints ELSE q[c]]

\* lines 265-269: point i (0-based) of the batch
PointOf(documents, vectors, collection_name, i) ==
    [id      |-> i,
     vector  |-> vectors[i + 1],
     payload |-> [source       |-> documents[i + 1].metadata.source,
                  collection   |-> collection_name,
                  chunk        |-> documents[i + 1].page_content,
                  page_content |-> documents[i + 1].page_content]]

\* for i, vec in enumerate(vectors)
BatchPoints(documents, vectors, collection_name) ==
    [i \in 0..(Len(vectors) - 1) |-> PointOf(documents, vectors, collection_name, i)]

\* mutant: the points of a batch get the ids that follow the ids in use
upsert_appended(q, name, points) ==
    LET base == Cardinality(DOMAIN q[name])
    IN  [q EXCEPT ![name] =
            [i \in DOMAIN q[name] \cup {base + j : j \in DOMAIN points} |->
                IF i \in DOMAIN q[name] THEN q[name][i] ELSE points[i - base]]]

\* upsert(collection_name, points): last write wins per id
upsert(q, name, points) ==
    [q EXCEPT ![name] =
        [i \in DOMAIN q[name] \cup DOMAIN points |->
            IF i \in DOMAIN points THEN points[i] ELSE q[name][i]]]

\* mutant: the empty filter matches no point
delete_none(q, name) == q

\* delete(collection_name, FilterSelector(Filter())): every point goes
delete_all(q, name) == [q EXCEPT ![name] = NoPoints]

-----------------------------------------------------------------------------
(* Handler frames *)

Reqs == 1..NumReqs

NoBytes == NoFile.bytes

IdleFrame ==
    [pc |-> "idle", op |-> "", method |-> "",
     \* request.form / request.files
     name |-> "", description |-> "", file |-> NoFile, query |-> "",
     \* locals of the handlers
     cols |-> <<>>, filename |-> <<>>, content |-> NoBytes, text |-> NoText,
     documents |-> <<>>, vectors |-> <<>>, query_vec |-> <<>>, k |-> 0,
     search_results |-> <<>>, skipped |-> {}, meta |-> <<>>, points |-> <<>>,
     connected |-> "", existing |-> <<>>,
     \* the external call that failed, the exception that left the handler,
     \* the category of the message flashed and, for upload, the message
     failed |-> "", raised |-> "", flash |-> "", message |-> ""]

\* the handler has returned: the request and its locals are gone, what was
\* answered remains until the slot takes its next request
Answer(f) ==
    [IdleFrame EXCEPT !.pc = "done", !.op = f.op, !.search_results = f.search_results,
                      !.name = f.name,
                      !.query = f.query, !.cols = IF f.op = "index" THEN f.cols ELSE <<>>,
                      !.skipped = f.skipped, !.connected = f.connected,
                      !.meta = f.meta, !.points = f.points,
                      !.failed = f.failed, !.raised = f.raised, !.flash = f.flash,
                      !.message = f.message]

\* flash(message, category) and return
Return(f, category) == Answer([f EXCEPT !.flash = category])

\* an exception leaves the handler: Flask answers 500
Raise(f, exception) == Answer([f EXCEPT !.raised = exception])

Free(r) ==
    /\ r <= env.workers
    /\ req[r].pc \in {"idle", "done"}
    /\ env.requests > 0 => started < env.requests

\* a request is taken
Take == started' = IF env.requests > 0 THEN started + 1 ELSE started

At(r, pc) == req[r].pc = pc

\* what an external call can do: answer (TRUE) or fail (FALSE)
Answers == IF env.faults THEN BOOLEAN ELSE {TRUE}

-----------------------------------------------------------------------------
(* History *)

\* expected: the chunks counted for the collection since its docs_count was
\* last 0 by creation or clear; raced: an increment was made while another
\* upload into the collection was under way
NoHist == [index |-> "absent", expected |-> 0, raced |-> FALSE]

\* the index of a collection: "absent", "fresh" (created, nothing written),
\* "once" (one batch written since), "twice" (two batches written since),
\* "cleared" (points deleted by a clear, nothing written since), "dirty"
\* (anything else)
HistUpsert(h, name) ==
    [h EXCEPT ![name].index = CASE @ = "fresh" -> "once"
                                [] @ = "once"  -> "twice"
                                [] OTHER       -> "dirty"]

-----------------------------------------------------------------------------
(* create_collection, lines 184-215 *)

\* mutant: the vector collection of an existing name is recreated, its
\* registry entry left as it is
ExistingRecreated(f) == [f EXCEPT !.pc = "recreate"]

\* mutant: the check is passed over and the creation goes on
ExistingInserted(f) == [f EXCEPT !.pc = "insert"]

\* lines 194-196: the name is in the registry
Existing(f) == Return(f, "warning")

\* line 193: existing = find_one({'name': name}), None when nothing matches
FindExisting(meta, name) ==
    IF Registered(meta, name) THEN <<find_one(meta, name)>> ELSE <<>>

\* lines 186-196: the form, then find_one
CreateFind(r) ==
    /\ Free(r)
    /\ \E name \in Names \cup {""}, description \in env.descriptions, ok \in Answers :
         LET f == [IdleFrame EXCEPT !.op = "create_collection", !.method = "POST",
                                    !.name = name, !.description = description]
             existing == FindExisting(collections_meta, name)
         IN  req' = [req EXCEPT ![r] =
                 IF name = "" THEN Return(f, "danger")
                 ELSE IF ~ok
                      THEN Raise([f EXCEPT !.failed = "find_one"], "RegistryUnavailableError")
                 ELSE IF existing # <<>> THEN Existing([f EXCEPT !.existing = existing])
                 ELSE [f EXCEPT !.pc = "insert"]]
    /\ UNCHANGED <<collections_meta, qdrant, tempfile, env, hist>>
    /\ Take

\* lines 198-204: insert_one
CreateInsert(r) ==
    /\ At(r, "insert")
    /\ \E ok \in Answers, now \in env.times :
         IF ok
         THEN /\ collections_meta' =
                    insert_one(collections_meta, req[r].name, req[r].description, now)
              /\ hist' = IF Registered(collections_meta, req[r].name) THEN hist
                         ELSE [hist EXCEPT ![req[r].name].expected = 0]
              /\ req' = [req EXCEPT ![r].pc = "recreate"]
         ELSE /\ req' = [req EXCEPT ![r] =
                    Raise([@ EXCEPT !.failed = "insert_one"], "RegistryUnavailableError")]
              /\ UNCHANGED <<collections_meta, hist>>
    /\ UNCHANGED <<qdrant, tempfile, env, started>>

\* mutant: the failure of the vector store leaves the handler
RecreateFailedRaised(f) == Raise(f, "VectorStoreUnavailableError")

\* lines 211-215: the failure of recreate_collection is printed, the handler
\* goes on to the flash of success
RecreateFailed(f) == Return(f, "success")

\* lines 206-215: recreate_collection; its failure is printed and passed over
CreateRecreate(r) ==
    /\ At(r, "recreate")
    /\ \E ok \in Answers :
         IF ok
         THEN /\ qdrant' = recreate_collection(qdrant, req[r].name)
              /\ hist' = [hist EXCEPT ![req[r].name].index = "fresh"]
              /\ req' = [req EXCEPT ![r] = Return(@, "success")]
         ELSE /\ req' = [req EXCEPT ![r] =
                    RecreateFailed([@ EXCEPT !.failed = "recreate_collection"])]
              /\ UNCHANGED <<qdrant, hist>>
    /\ UNCHANGED <<collections_meta, tempfile, env, started>>

-----------------------------------------------------------------------------
(* upload, lines 217-276 *)

\* the text the extractor gives for the bytes of a file with this name
TextOf(filename, bytes) ==
    IF EndsWithPdf(filename) THEN extract_text_from_pdf(bytes) ELSE DecodeUtf8(bytes)

\* how many chunks an upload of the file can add to a docs_count
ChunksOf(file) ==
    LET filename == secure_filename(file.filename)
        text == TextOf(filename, file.bytes)
    IN  IF file = NoFile \/ ~allowed_file(file.filename) THEN 0
        ELSE IF ~EndsWithPdf(filename) /\ ~file.bytes.utf8 THEN 0
        ELSE IF StripIsEmpty(text) THEN 0
        ELSE NumChunks(text.len)

Uploading(r) ==
    req[r].op = "upload" /\ req[r].pc \notin {"idle", "done"}

RECURSIVE PendingChunks(_)
PendingChunks(n) ==
    IF n = 0 THEN 0
    ELSE (IF Uploading(n) THEN ChunksOf(req[n].file) ELSE 0) + PendingChunks(n - 1)

\* the bound on docs_count: an upload starts only if no docs_count can pass it
Room(file) ==
    \A i \in DOMAIN collections_meta :
        collections_meta[i].docs_count + PendingChunks(NumReqs) + ChunksOf(file)
            <= MaxDocsCount

\* mutant: the text is split and embedded without the check of line 255
AfterTextUnchecked(f, text) ==
    [f EXCEPT !.pc = "embed", !.text = text,
              !.documents = Documents(text, f.filename)]

\* lines 255-261: nothing to index, or the documents of the text
AfterText(f, text) ==
    IF StripIsEmpty(text)
    THEN Return([f EXCEPT !.message = "No text extracted from file"], "warning")
    ELSE [f EXCEPT !.pc = "embed", !.text = text,
                   !.documents = Documents(text, f.filename)]

\* lines 219-236: find({}), the checks of the form, secure_filename
UploadBegin(r) ==
    /\ Free(r)
    /\ \E form \in {[method |-> "GET", file |-> NoFile, name |-> ""]}
                        \cup [method : {"POST"}, file : env.files \cup {NoFile},
                              name : env.names \cup {""}],
          ok \in Answers :
         LET method == form.method
             file == form.file
             name == form.name
             f == [IdleFrame EXCEPT !.op = "upload", !.method = method,
                                    !.name = name, !.file = file,
                                    !.cols = IF ok THEN collections_meta ELSE <<>>]
         IN  /\ method = "POST" => Room(file)
             /\ req' = [req EXCEPT ![r] =
                   IF ~ok THEN Raise([f EXCEPT !.failed = "find"], "RegistryUnavailableError")
                   ELSE IF method = "GET" THEN Answer(f)
                   ELSE IF file = NoFile
                        THEN Return([f EXCEPT !.message = "No file selected"], "danger")
                   ELSE IF name = ""
                        THEN Return([f EXCEPT !.message = "Select a collection"], "danger")
                   ELSE IF ~allowed_file(file.filename)
                        THEN Return([f EXCEPT !.message = "File type not allowed"], "danger")
                   ELSE [f EXCEPT !.pc = "gridfs",
                                  !.filename = secure_filename(file.filename)]]
    /\ UNCHANGED <<collections_meta, qdrant, tempfile, env, hist>>
    /\ Take

\* lines 239-244 and 252-261: the bytes go to GridFS and are read back; a
\* file that is no PDF is decoded here
UploadStore(r) ==
    /\ At(r, "gridfs")
    /\ \E ok \in Answers :
         LET f == [req[r] EXCEPT !.content = req[r].file.bytes]
         IN  req' = [req EXCEPT ![r] =
                 IF ~ok THEN Raise([@ EXCEPT !.failed = "gridfs"], "RegistryUnavailableError")
                 ELSE IF EndsWithPdf(f.filename) THEN [f EXCEPT !.pc = "write_temp"]
                 ELSE IF ~f.content.utf8 THEN Raise(f, "DecodeError")
                 ELSE AfterText(f, DecodeUtf8(f.content))]
    /\ UNCHANGED <<collections_meta, qdrant, tempfile, env, hist, started>>

NoTemp == [exists |-> FALSE, bytes |-> NoBytes]

\* lines 248-249: open("temp.pdf", "wb"), write(content)
UploadWriteTemp(r) ==
    /\ At(r, "write_temp")
    /\ tempfile' = [exists |-> TRUE, bytes |-> req[r].content]
    /\ req' = [req EXCEPT ![r].pc = "extract"]
    /\ UNCHANGED <<collections_meta, qdrant, env, hist, started>>

\* line 250: extract_text_from_pdf("temp.pdf") reads what the file holds now
UploadExtract(r) ==
    /\ At(r, "extract")
    /\ req' = [req EXCEPT ![r] =
           IF ~tempfile.exists THEN Raise(@, "FileNotFoundError")
           ELSE [@ EXCEPT !.pc = "remove",
                          !.text = extract_text_from_pdf(tempfile.bytes)]]
    /\ UNCHANGED <<collections_meta, qdrant, tempfile, env, hist, started>>

\* lines 251 and 255-261: os.remove("temp.pdf")
UploadRemove(r) ==
    /\ At(r, "remove")
    /\ IF tempfile.exists
       THEN /\ tempfile' = NoTemp
            /\ req' = [req EXCEPT ![r] = AfterText(@, req[r].text)]
       ELSE /\ req' = [req EXCEPT ![r] = Raise(@, "FileNotFoundError")]
            /\ UNCHANGED tempfile
    /\ UNCHANGED <<collections_meta, qdrant, env, hist, started>>

\* mutant: the failure is swallowed and the upload goes on without vectors
EmbedFailedSwallowed(f) == [f EXCEPT !.pc = "upsert", !.vectors = <<>>]

\* line 263 when the embedding service fails: raise_for_status raises and
\* nothing in upload catches it
EmbedFailed(f) == Raise(f, "EmbeddingServiceError")

\* line 263: get_embeddings
UploadEmbed(r) ==
    /\ At(r, "embed")
    /\ \E ok \in Answers :
         req' = [req EXCEPT ![r] =
             IF ok
             THEN [@ EXCEPT !.pc = "upsert",
                            !.vectors = get_embeddings(
                                [i \in DOMAIN req[r].documents |->
                                    req[r].documents[i].page_content])]
             ELSE EmbedFailed([@ EXCEPT !.failed = "embed"])]
    /\ UNCHANGED <<collections_meta, qdrant, tempfile, env, hist, started>>

\* mutant: the failure is swallowed and the upload goes on to the increment
UpsertFailedSwallowed(f) == [f EXCEPT !.pc = "inc"]

\* line 271 when the vector store fails: nothing in upload catches it
UpsertFailed(f) == Raise(f, "IndexingError")

\* lines 265-271: the points of the batch, upsert
UploadUpsert(r) ==
    /\ At(r, "upsert")
    /\ \E ok \in Answers :
         IF ok /\ req[r].name \in DOMAIN qdrant
         THEN /\ qdrant' = upsert(qdrant, req[r].name,
                      BatchPoints(req[r].documents, req[r].vectors, req[r].name))
              /\ hist' = HistUpsert(hist, req[r].name)
              /\ req' = [req EXCEPT ![r].pc = "inc"]
         ELSE /\ req' = [req EXCEPT ![r] = UpsertFailed([@ EXCEPT !.failed = "upsert"])]
              /\ UNCHANGED <<qdrant, hist>>
    /\ UNCHANGED <<collections_meta, tempfile, env, started>>

\* mutant: the count is read (line 219), added to and written back
IncrementFromSnapshot(meta, f) ==
    IF ~Registered(meta, f.name) \/ ~Registered(f.cols, f.name) THEN meta
    ELSE [meta EXCEPT ![FirstMatch(meta, f.name)].docs_count =
                          DocsCount(f.cols, f.name) + Len(f.documents)]

\* mutant: one is added per upload, not one per chunk
IncrementByOne(meta, f) == update_one_inc(meta, f.name, 1)

\* line 273: the registry after the $inc of this upload
IncrementDocsCount(meta, f) == update_one_inc(meta, f.name, Len(f.documents))

\* lines 273-276: update_one $inc, flash, redirect
UploadInc(r) ==
    /\ At(r, "inc")
    /\ \E ok \in Answers :
         IF ok
         THEN /\ collections_meta' = IncrementDocsCount(collections_meta, req[r])
              /\ hist' = IF Registered(collections_meta, req[r].name)
                         THEN [hist EXCEPT ![req[r].name].expected =
                                               @ + Len(req[r].documents),
                                           ![req[r].name].raced =
                                               @ \/ \E o \in Reqs \ {r} :
                                                       /\ Uploading(o)
                                                       /\ req[o].name = req[r].name]
                         ELSE hist
              /\ req' = [req EXCEPT ![r] = Return(@, "success")]
         ELSE /\ req' = [req EXCEPT ![r] =
                    Raise([@ EXCEPT !.failed = "update_one"], "RegistryUnavailableError")]
              /\ UNCHANGED <<collections_meta, hist>>
    /\ UNCHANGED <<qdrant, tempfile, env, started>>

-----------------------------------------------------------------------------
(* clear_collection, lines 103-117 *)

\* line 117: url_for('view_collection', ...).  view_collection is defined
\* at line 279 without a route (line 278 stands where its decorator would),
\* so no endpoint of that name exists and url_for raises BuildError.
RedirectToView(f) == Raise(f, "BuildError")

\* lines 105-112: the form (the name comes from the URL), delete
ClearDelete(r) ==
    /\ Free(r)
    /\ \E name \in Names, ok \in Answers :
         LET f == [IdleFrame EXCEPT !.op = "clear_collection", !.method = "POST",
                                    !.name = name]
         IN  IF ok /\ name \in DOMAIN qdrant
             THEN /\ qdrant' = delete_all(qdrant, name)
                  /\ hist' = [hist EXCEPT ![name].index =
                                 IF qdrant[name] # NoPoints THEN "cleared" ELSE "dirty"]
                  /\ req' = [req EXCEPT ![r] = [f EXCEPT !.pc = "set_count"]]
             ELSE /\ req' = [req EXCEPT ![r] =
                        RedirectToView([f EXCEPT !.failed = "delete", !.flash = "danger"])]
                  /\ UNCHANGED <<qdrant, hist>>
    /\ UNCHANGED <<collections_meta, tempfile, env>>
    /\ Take

\* lines 113-117: update_one $set docs_count 0, flash, redirect
ClearSetCount(r) ==
    /\ At(r, "set_count")
    /\ \E ok \in Answers :
         IF ok
         THEN /\ collections_meta' = update_one_set0(collections_meta, req[r].name)
              /\ hist' = [hist EXCEPT ![req[r].name].expected = 0]
              /\ req' = [req EXCEPT ![r] = RedirectToView([@ EXCEPT !.flash = "success"])]
         ELSE /\ req' = [req EXCEPT ![r] =
                    RedirectToView([@ EXCEPT !.failed = "update_one", !.flash = "danger"])]
              /\ UNCHANGED <<collections_meta, hist>>
    /\ UNCHANGED <<qdrant, tempfile, env, started>>

-----------------------------------------------------------------------------
(* view_collection, lines 279-288 *)

\* the points of a collection in id order, as a list
RECURSIVE PointList(_, _)
PointList(points, ids) ==
    IF ids = {} THEN <<>>
    ELSE LET i == CHOOSE x \in ids : \A y \in ids : x <= y
         IN  <<points[i]>> \o PointList(points, ids \ {i})

\* scroll(collection_name, limit): the first `limit` points
scroll(q, name, limit) ==
    LET all == PointList(q[name], DOMAIN q[name])
    IN  SubSeq(all, 1, Min(limit, Len(all)))

\* lines 281-286: the points shown, [] when scroll raises
ViewPoints(q, name, ok) ==
    IF ok /\ name \in DOMAIN q
    THEN LET resp == scroll(q, name, SCROLL_LIMIT)
         IN  [i \in DOMAIN resp |-> [id |-> resp[i].id, payload |-> resp[i].payload]]
    ELSE <<>>

\* line 280: meta, None when no document matches
ViewMeta(meta, name) ==
    IF Registered(meta, name) THEN <<find_one(meta, name)>> ELSE <<>>

\* line 280: find_one
ViewFind(r) ==
    /\ Free(r)
    /\ \E name \in Names, ok \in Answers :
         LET f == [IdleFrame EXCEPT !.op = "view_collection", !.method = "GET",
                                    !.name = name]
         IN  req' = [req EXCEPT ![r] =
                 IF ok THEN [f EXCEPT !.pc = "scroll",
                                      !.meta = ViewMeta(collections_meta, name)]
                 ELSE Raise([f EXCEPT !.failed = "find_one"], "RegistryUnavailableError")]
    /\ UNCHANGED <<collections_meta, qdrant, tempfile, env, hist>>
    /\ Take

\* lines 281-288: scroll, render
ViewScroll(r) ==
    /\ At(r, "scroll")
    /\ \E ok \in Answers :
         req' = [req EXCEPT ![r] =
             Answer([@ EXCEPT !.points = ViewPoints(qdrant, req[r].name, ok),
                              !.failed = IF ok /\ req[r].name \in DOMAIN qdrant
                                         THEN "" ELSE "scroll"])]
    /\ UNCHANGED <<collections_meta, qdrant, tempfile, env, hist, started>>

-----------------------------------------------------------------------------
(* index, lines 119-177 *)

Queries == {"q1", "q2"}

\* the text of a query, as the embedding service sees it
QueryText(query) == [src |-> query, from |-> 0, to |-> 0]

NAChunk == [src |-> "N/A", from |-> 0, to |-> 0]

NASource == <<"N", "/", "A">>

\* payload.get(key, default)
Get(payload, key, default) ==
    IF key \in DOMAIN payload THEN payload[key] ELSE default

\* a text is true in Python when it is not empty
Truthy(chunk) == chunk.to > chunk.from

\* mutant: the chunk field or the placeholder
ChunkOnly(payload) == Get(payload, "chunk", NAChunk)

\* payload.get('chunk') or payload.get('page_content', 'N/A')
ChunkOf(payload) ==
    IF "chunk" \in DOMAIN payload /\ Truthy(payload.chunk) THEN payload.chunk
    ELSE Get(payload, "page_content", NAChunk)

\* the list s with x put behind every element whose score is not smaller
RECURSIVE InsertDesc(_, _)
InsertDesc(s, x) ==
    IF s = <<>> THEN <<x>>
    ELSE IF Head(s).score >= x.score THEN <<Head(s)>> \o InsertDesc(Tail(s), x)
    ELSE <<x>> \o s

\* sorted(s, key=score, reverse=True): stable
RECURSIVE SortDesc(_)
SortDesc(s) ==
    IF s = <<>> THEN <<>>
    ELSE InsertDesc(SortDesc(SubSeq(s, 1, Len(s) - 1)), s[Len(s)])

\* s[:n]
FirstN(s, n) == SubSeq(s, 1, Min(n, Len(s)))

\* search(collection_name, query_vector, limit): the limit nearest points,
\* by falling score, points of one score in id order
search(q, name, query_vec, limit) ==
    LET all == PointList(q[name], DOMAIN q[name])
        scored == [i \in DOMAIN all |->
                      [id |-> all[i].id, score |-> Score(query_vec, all[i].vector),
                       payload |-> all[i].payload]]
    IN  FirstN(SortDesc(scored), limit)

\* lines 151-156: a hit of the search of collection c
AllResult(hit, c) ==
    [score      |-> hit.score,
     source     |-> Get(hit.payload, "source", NASource),
     collection |-> Get(hit.payload, "collection", c),
     chunk      |-> ChunkOf(hit.payload)]

\* lines 168-173: a hit of the search of one collection
SingleResult(hit) ==
    [score      |-> hit.score,
     source     |-> Get(hit.payload, "source", NASource),
     collection |-> Get(hit.payload, "collection", "N/A"),
     chunk      |-> ChunkOf(hit.payload)]

\* mutant: the merged list is sorted and not cut
MergeUncut(search_results) == SortDesc(search_results)

\* line 160: sort by score descending, the first ten
MergeResults(search_results) == FirstN(SortDesc(search_results), ALL_TOP)

\* mutant: the failure leaves the loop and the handler
SearchOfOneRaised(f, c) == Raise(f, "VectorStoreUnavailableError")

\* lines 157-158: the search of one collection failed
SearchOfOneFailed(f, c) ==
    [f EXCEPT !.k = @ + 1, !.skipped = @ \cup {c}]

\* lines 143-160: the frame after the loop has come to position f.k
LoopOrMerge(f) ==
    IF f.k < Len(f.cols) THEN f
    ELSE Answer([f EXCEPT !.search_results = MergeResults(f.search_results)])

\* lines 126-132: check_connections and what is flashed for it
Connected(qdrant_ok, mongo_ok) ==
    IF qdrant_ok /\ mongo_ok THEN "success" ELSE "danger"

\* lines 121-137: find({}), check_connections, the form
IndexBegin(r) ==
    /\ Free(r)
    /\ \E form \in {[method |-> "GET", query |-> "", target |-> ""]}
                        \cup [method : {"POST"}, query : Queries \cup {""},
                              target : env.targets \cup {""}],
          ok \in Answers,
          connected \in {Connected(qdrant_ok, mongo_ok) :
                            qdrant_ok \in Answers, mongo_ok \in Answers} :
         LET method == form.method
             query == form.query
             target == form.target
             f == [IdleFrame EXCEPT !.op = "index", !.method = method,
                                    !.query = query, !.name = target,
                                    !.cols = IF ok THEN collections_meta ELSE <<>>,
                                    !.connected = connected]
         IN  /\ req' = [req EXCEPT ![r] =
                   IF ~ok THEN Raise([f EXCEPT !.failed = "find", !.connected = ""],
                                     "RegistryUnavailableError")
                   ELSE IF method = "GET" \/ query = "" \/ target = "" THEN Answer(f)
                   ELSE [f EXCEPT !.pc = "query_embed"]]
    /\ UNCHANGED <<collections_meta, qdrant, tempfile, env, hist>>
    /\ Take

\* line 138: the embedding of the query, outside the try of line 139
IndexEmbed(r) ==
    /\ At(r, "query_embed")
    /\ \E ok \in Answers :
         req' = [req EXCEPT ![r] =
             IF ~ok THEN Raise([@ EXCEPT !.failed = "embed"], "EmbeddingServiceError")
             ELSE LET f == [@ EXCEPT !.query_vec =
                                get_embeddings(<<QueryText(req[r].query)>>)[1]]
                  IN  IF f.name = "__all__"
                      THEN LoopOrMerge([f EXCEPT !.pc = "search_all", !.k = 0])
                      ELSE [f EXCEPT !.pc = "search_one"]]
    /\ UNCHANGED <<collections_meta, qdrant, tempfile, env, hist, started>>

\* lines 143-160: one turn of the loop over cols, and the merge after the last
IndexSearchAll(r) ==
    /\ At(r, "search_all")
    /\ \E ok \in Answers :
         LET c == req[r].cols[req[r].k + 1].name
             hits == search(qdrant, c, req[r].query_vec, ALL_LIMIT)
         IN  req' = [req EXCEPT ![r] =
                 IF ok /\ c \in DOMAIN qdrant
                 THEN LoopOrMerge([@ EXCEPT
                          !.k = @ + 1,
                          !.search_results =
                              @ \o [i \in DOMAIN hits |-> AllResult(hits[i], c)]])
                 ELSE LoopOrMerge(SearchOfOneFailed([@ EXCEPT !.failed = "search"], c))]
    /\ UNCHANGED <<collections_meta, qdrant, tempfile, env, hist, started>>

\* lines 162-176: the search of one collection; its failure is flashed
IndexSearchOne(r) ==
    /\ At(r, "search_one")
    /\ \E ok \in Answers :
         LET c == req[r].name
             hits == search(qdrant, c, req[r].query_vec, SINGLE_LIMIT)
         IN  req' = [req EXCEPT ![r] =
                 IF ok /\ c \in DOMAIN qdrant
                 THEN Answer([@ EXCEPT !.search_results =
                                 [i \in DOMAIN hits |-> SingleResult(hits[i])]])
                 ELSE Return([@ EXCEPT !.failed = "search"], "danger")]
    /\ UNCHANGED <<collections_meta, qdrant, tempfile, env, hist, started>>

-----------------------------------------------------------------------------
(* The server *)

\* the stores outlive the server: one collection is there from an earlier run
BystanderText == [src |-> "G", len |-> 700, blank |-> FALSE]

BystanderPoints ==
    LET documents == Documents(BystanderText, <<"g", ".", "t", "x", "t">>)
        texts == [i \in DOMAIN documents |-> documents[i].page_content]
    IN  BatchPoints(documents, get_embeddings(texts), Bystander)

InitStores ==
    /\ collections_meta =
           <<[name |-> Bystander, description |-> "", created_at |-> 0,
              docs_count |-> 1]>>
    /\ qdrant = [c \in {Bystander} |-> BystanderPoints]
    /\ tempfile = NoTemp
    /\ req = [r \in Reqs |-> IdleFrame]
    /\ hist = [c \in Names |-> NoHist]
    /\ started = 0

\* app.run(): the development server handles requests in threads.  The
\* services answer; the uploads are the ones that reach the index.
Init ==
    /\ InitStores
    /\ env = [workers |-> NumReqs, requests |-> MaxRequests, faults |-> FALSE,
              files |-> ConcurrentFiles, names |-> Names, targets |-> {},
              descriptions |-> {""}, times |-> {1}]

\* operations run one at a time; every external call may fail
InitSeq ==
    /\ InitStores
    /\ env = [workers |-> 1, requests |-> 0, faults |-> TRUE,
              files |-> Files, names |-> Names \cup {Ghost}, targets |-> {},
              descriptions |-> Descriptions, times |-> Times]

Next ==
    \E r \in Reqs :
        \/ CreateFind(r) \/ CreateInsert(r) \/ CreateRecreate(r)
        \/ UploadBegin(r) \/ UploadStore(r) \/ UploadWriteTemp(r)
        \/ UploadExtract(r) \/ UploadRemove(r) \/ UploadEmbed(r)
        \/ UploadUpsert(r) \/ UploadInc(r)
        \/ ClearDelete(r) \/ ClearSetCount(r)
        \/ ViewFind(r) \/ ViewScroll(r)

Spec == Init /\ [][Next]_vars

SpecSeq == InitSeq /\ [][Next]_vars

\* operations run one at a time and every external call answers
InitSeqOk ==
    /\ InitStores
    /\ env = [workers |-> 1, requests |-> 0, faults |-> FALSE,
              files |-> Files, names |-> Names \cup {Ghost}, targets |-> {},
              descriptions |-> Descriptions, times |-> Times]

SpecSeqOk == InitSeqOk /\ [][Next]_vars

\* The searches.  The stores hold what earlier uploads left: every collection
\* of SearchNames is registered, and its index is missing (recreate failed,
\* or it was dropped in the vector store) or holds one of SearchContents.
SearchNames == <<"docs", "kb", "notes">>

BigText == [src |-> "A", len |-> 5000, blank |-> FALSE]

SmallText == [src |-> "N", len |-> 2500, blank |-> FALSE]

Batch(text, filename, name) ==
    LET documents == Documents(text, filename)
        texts == [i \in DOMAIN documents |-> documents[i].page_content]
    IN  BatchPoints(documents, get_embeddings(texts), name)

\* points that another writer left in the vector store: a payload with
\* none of the fields index reads, one with page_content only, one with a
\* source and an empty chunk
LegacyText(i) == [src |-> "L", from |-> 0, to |-> 100 * i]

LegacyPayloads ==
    <<[text |-> LegacyText(1)],
      [page_content |-> LegacyText(2)],
      [source |-> <<"o", "l", "d">>, chunk |-> LegacyText(0)]>>

LegacyPoints ==
    [i \in 0..(Len(LegacyPayloads) - 1) |->
        [id |-> i, vector |-> <<3, i>>, payload |-> LegacyPayloads[i + 1]]]

SearchContents(name) ==
    LET big == Batch(BigText, TxtA, name)
        small == Batch(SmallText, secure_filename(TxtN), name)
    IN  { NoPoints, big, small,
          [i \in DOMAIN big |-> IF i \in DOMAIN small THEN small[i] ELSE big[i]],
          LegacyPoints }

InitSearch ==
    /\ collections_meta =
           [i \in DOMAIN SearchNames |->
               [name |-> SearchNames[i], description |-> "", created_at |-> 0,
                docs_count |-> 0]]
    /\ \E present \in SUBSET Range(SearchNames) :
           qdrant \in [present -> UNION {SearchContents(c) : c \in present}]
    /\ \A c \in DOMAIN qdrant : qdrant[c] \in SearchContents(c)
    /\ tempfile = NoTemp
    /\ req = [r \in Reqs |-> IdleFrame]
    /\ hist = [c \in Names |-> NoHist]
    /\ started = 0
    /\ env = [workers |-> 1, requests |-> 0, faults |-> TRUE, files |-> {},
              names |-> {}, targets |-> Range(SearchNames) \cup {Ghost, "__all__"},
              descriptions |-> {}, times |-> {}]

NextSearch ==
    \E r \in Reqs :
        \/ IndexBegin(r) \/ IndexEmbed(r) \/ IndexSearchAll(r) \/ IndexSearchOne(r)

SpecSearch == InitSearch /\ [][NextSearch]_vars

-----------------------------------------------------------------------------
(* Properties *)

\* the slot r takes a step
Step(r) == req'[r] # req[r]

UploadAt(r, pcs) == req[r].op = "upload" /\ req[r].pc \in pcs

\* C1: in upload the $inc of docs_count runs only after upsert has answered:
\* an upload whose upsert fails ends there with IndexingError and the
\* registry is what it was when the upload began; an upload changes the
\* registry only in its increment step, with no call of it failed.
C1_IncrementOnlyAfterUpsert ==
    [][\A r \in Reqs :
          /\ (UploadAt(r, {"upsert"}) /\ req'[r].failed = "upsert") =>
                /\ req'[r].pc = "done"
                /\ req'[r].raised = "IndexingError"
                /\ collections_meta' = collections_meta
                /\ collections_meta' = req[r].cols
          /\ (Uploading(r) /\ Step(r) /\ collections_meta' # collections_meta) =>
                UploadAt(r, {"inc"}) /\ req[r].failed = ""
      ]_vars

\* C1 witness: an upload into a registered collection with points counted
\* has ended with IndexingError
C1_Witness ==
    \E r \in Reqs :
        /\ req[r].op = "upload" /\ req[r].pc = "done"
        /\ req[r].raised = "IndexingError"
        /\ req[r].name \in DOMAIN qdrant
        /\ Registered(collections_meta, req[r].name)
        /\ DocsCount(collections_meta, req[r].name) > 0

\* C2: an upload whose embedding call fails ends there with
\* EmbeddingServiceError, the index and the registry untouched; an upload
\* writes to the index or the registry only in its upsert and increment
\* steps, holding one vector per document and with no call of it failed.
C2_EmbeddingFailureAborts ==
    [][\A r \in Reqs :
          /\ (UploadAt(r, {"embed"}) /\ req'[r].failed = "embed") =>
                /\ req'[r].pc = "done"
                /\ req'[r].raised = "EmbeddingServiceError"
                /\ qdrant' = qdrant
                /\ collections_meta' = collections_meta
                /\ collections_meta' = req[r].cols
          /\ (Uploading(r) /\ Step(r)
                 /\ (qdrant' # qdrant \/ collections_meta' # collections_meta)) =>
                /\ UploadAt(r, {"upsert", "inc"})
                /\ req[r].failed = ""
                /\ Len(req[r].vectors) = Len(req[r].documents)
      ]_vars

\* C2 witness: an upload into a collection that is registered and indexed
\* has ended with EmbeddingServiceError
C2_Witness ==
    \E r \in Reqs :
        /\ req[r].op = "upload" /\ req[r].pc = "done"
        /\ req[r].raised = "EmbeddingServiceError"
        /\ req[r].name \in DOMAIN qdrant
        /\ Registered(collections_meta, req[r].name)

\* C3 (as claimed): an upload that names a collection the registry does not
\* hold goes no further than its first step, so it never stores, extracts,
\* embeds or upserts.
C3_UnknownCollectionRejected ==
    \A r \in Reqs :
        UploadAt(r, {"gridfs", "write_temp", "extract", "remove", "embed", "upsert", "inc"})
            => Registered(req[r].cols, req[r].name)

\* C4: the increment step of a successful upload that wrote the only batch
\* of a collection since its creation leaves docs_count = n and exactly the
\* points 0..n-1 in the index, point i carrying the source (filename), the
\* collection and the text of chunk i.
C4_FirstIngestCounts ==
    [][\A r \in Reqs :
          (UploadAt(r, {"inc"}) /\ req'[r].flash = "success"
              /\ hist[req[r].name].index = "once") =>
             LET c == req[r].name
                 n == Len(req[r].documents)
                 chunks == split_text(req[r].text)
             IN  /\ n >= 1 /\ n = Len(chunks)
                 /\ Registered(collections_meta', c)
                 /\ DocsCount(collections_meta', c) = n
                 /\ DOMAIN qdrant'[c] = 0..(n - 1)
                 /\ \A i \in 0..(n - 1) :
                       /\ qdrant'[c][i].id = i
                       /\ qdrant'[c][i].payload.source = req[r].filename
                       /\ qdrant'[c][i].payload.collection = c
                       /\ qdrant'[c][i].payload.chunk = chunks[i + 1]
      ]_vars

\* C4 witness: "docs" was created and one upload of three chunks into it
\* has succeeded (the scenario of the specification)
C4_Witness ==
    \E r \in Reqs :
        /\ req[r].op = "upload" /\ req[r].pc = "done" /\ req[r].flash = "success"
        /\ req[r].name = "docs"
        /\ hist["docs"].index = "once"
        /\ DocsCount(collections_meta, "docs") = 3
        /\ Cardinality(DOMAIN qdrant["docs"]) = 3

\* C5: right after a successful clear of C, scroll of C gives no point and
\* docs_count(C) is 0, C still being in the registry and in the vector store.
C5_ClearThenScrollEmpty ==
    [][\A r \in Reqs :
          (req[r].op = "clear_collection" /\ At(r, "set_count")
              /\ req'[r].flash = "success") =>
             LET c == req[r].name
             IN  /\ c \in DOMAIN qdrant'
                 /\ ViewPoints(qdrant', c, TRUE) = <<>>
                 /\ Registered(collections_meta', c)
                 /\ ViewMeta(collections_meta', c)[1].docs_count = 0
      ]_vars

\* C5 witness: a clear of a collection that held points has succeeded
C5_Witness ==
    \E r \in Reqs :
        /\ req[r].op = "clear_collection" /\ req[r].pc = "done"
        /\ req[r].flash = "success"
        /\ hist[req[r].name].index = "cleared"
        /\ qdrant[req[r].name] = NoPoints
        /\ DocsCount(collections_meta, req[r].name) = 0

\* the vector of a query
QueryVec(query) == get_embeddings(<<QueryText(query)>>)[1]

\* the slot r has answered a search of all collections whose find({}) and
\* query embedding succeeded
AllSearched(r) ==
    /\ req[r].op = "index" /\ req[r].pc = "done"
    /\ req[r].name = "__all__" /\ req[r].query # ""
    /\ req[r].failed \in {"", "search"}

\* the hits of the collections of cols whose search did not fail, in the
\* order of cols
RECURSIVE RemainingHits(_, _, _)
RemainingHits(cols, skipped, query) ==
    IF cols = <<>> THEN <<>>
    ELSE LET c == Head(cols).name
             hits == search(qdrant, c, QueryVec(query), ALL_LIMIT)
         IN  (IF c \in skipped \/ c \notin DOMAIN qdrant THEN <<>>
              ELSE [i \in DOMAIN hits |-> AllResult(hits[i], c)])
             \o RemainingHits(Tail(cols), skipped, query)

\* C6: a search of all collections in which the search of some collection
\* failed answers without an exception and without an error message; no
\* result comes from a collection whose search failed, every result is a
\* hit of a remaining collection, and when at most ten such hits exist all
\* of them are returned.
C6_FanOutSwallowsFailures ==
    \A r \in Reqs :
        AllSearched(r) =>
           LET hits == RemainingHits(req[r].cols, req[r].skipped, req[r].query)
               res == req[r].search_results
           IN  /\ req[r].raised = "" /\ req[r].flash = ""
               /\ req[r].failed = "search" => req[r].skipped # {}
               /\ \A i \in DOMAIN res : res[i].collection \notin req[r].skipped
               /\ Range(res) \subseteq Range(hits)
               /\ Len(hits) <= ALL_TOP => Range(res) = Range(hits)

\* C6 witness: the search of an indexed collection with points failed and
\* the answer holds hits of the others
C6_Witness ==
    \E r \in Reqs :
        /\ AllSearched(r)
        /\ req[r].raised = ""
        /\ req[r].search_results # <<>>
        /\ \E c \in req[r].skipped : c \in DOMAIN qdrant /\ qdrant[c] # NoPoints

\* C7: the answer of a search of all collections has min(10, number of hits)
\* entries, each collection giving at most 5 hits; it is in non-increasing
\* score order, holds hits only, and no hit left out has a greater score
\* than one returned.
C7_MergedTopTen ==
    \A r \in Reqs :
        AllSearched(r) =>
           LET hits == RemainingHits(req[r].cols, req[r].skipped, req[r].query)
               res == req[r].search_results
           IN  /\ Len(res) = Min(10, Len(hits))
               /\ \A c \in Range(SearchNames) :
                     Cardinality({i \in DOMAIN hits : hits[i].collection = c}) <= 5
               /\ \A i, j \in DOMAIN res : i < j => res[i].score >= res[j].score
               /\ Range(res) \subseteq Range(hits)
               /\ Cardinality(Range(res)) = Len(res)
               /\ \A h \in Range(hits) \ Range(res) :
                     \A x \in Range(res) : h.score <= x.score

\* C7 witness: more than ten hits, a collection with more than five points,
\* ten results, and a hit left out
C7_Witness ==
    \E r \in Reqs :
        /\ AllSearched(r)
        /\ Len(RemainingHits(req[r].cols, req[r].skipped, req[r].query)) > 10
        /\ Len(req[r].search_results) = 10
        /\ \E c \in DOMAIN qdrant : Cardinality(DOMAIN qdrant[c]) > 5

\* C8 (as claimed): no failure of an external call leaves a handler as an
\* exception.
C8_FailuresCaughtAtBoundary ==
    \A r \in Reqs :
        (req[r].pc = "done" /\ req[r].failed # "") => req[r].raised = ""

\* C9: docs_count of a registered collection is the sum of the chunk counts
\* of the uploads that have incremented it since it was last 0 by creation
\* or clear, in every interleaving: no increment is lost.
C9_NoLostIncrement ==
    \A c \in Names :
        Registered(collections_meta, c) =>
            DocsCount(collections_meta, c) = hist[c].expected

\* C9 witness: two uploads into "docs", of one and of two chunks, overlapped
\* and both have incremented
C9_Witness ==
    /\ \A r \in Reqs :
          /\ req[r].op = "upload" /\ req[r].pc = "done"
          /\ req[r].flash = "success" /\ req[r].name = "docs"
    /\ hist["docs"].raced
    /\ DocsCount(collections_meta, "docs") = 3

\* C10 (as claimed): an upload extracts the text of its own bytes, and no
\* upload fails on the file temp.pdf.
C10_UploadsIndependent ==
    \A r \in Reqs :
        /\ UploadAt(r, {"remove", "embed", "upsert", "inc"}) =>
              req[r].text = TextOf(req[r].filename, req[r].file.bytes)
        /\ (req[r].op = "upload" /\ req[r].pc = "done") =>
              req[r].raised # "FileNotFoundError"

\* the slot r takes a create_collection request whose find_one finds the name
CreateOfExisting(r) ==
    /\ req[r].pc \in {"idle", "done"} /\ Step(r)
    /\ req'[r].op = "create_collection" /\ req'[r].name # ""
    /\ req'[r].failed = ""
    /\ Registered(collections_meta, req'[r].name)

\* a create_collection whose find_one found the name takes a later step
CreateAfterExisting(r) ==
    /\ req[r].op = "create_collection" /\ req[r].pc \notin {"idle", "done"}
    /\ req[r].existing # <<>> /\ Step(r)

\* C11 (as claimed): when create_collection has answered for a name that was
\* in the registry, the vector index of that name holds no points.
C11_CreateExistingWipes ==
    \A r \in Reqs :
        (req[r].op = "create_collection" /\ req[r].pc = "done"
            /\ req[r].flash = "warning" /\ req[r].name \in DOMAIN qdrant)
           => qdrant[req[r].name] = NoPoints

\* C11 (amended): a create_collection of a name that is in the registry ends
\* at its find_one with a warning and never calls the vector store: the
\* points of every collection are what they were.
C11_CreateExistingKeepsVectors ==
    [][\A r \in Reqs :
          /\ CreateOfExisting(r) =>
                /\ req'[r].pc = "done" /\ req'[r].flash = "warning"
                /\ req'[r].raised = ""
                /\ qdrant' = qdrant
          /\ CreateAfterExisting(r) => qdrant' = qdrant
      ]_vars

\* C11 witness: create_collection has answered with the warning for a name
\* whose index holds points
C11_Witness ==
    \E r \in Reqs :
        /\ req[r].op = "create_collection" /\ req[r].pc = "done"
        /\ req[r].flash = "warning"
        /\ req[r].name \in DOMAIN qdrant
        /\ qdrant[req[r].name] # NoPoints

\* C12: a create_collection of a name that is in the registry adds no entry
\* and changes none: the registry after it is the registry before it, with
\* one entry of that name, whatever description the request carries.
C12_CreateIdempotentInRegistry ==
    [][\A r \in Reqs :
          /\ CreateOfExisting(r) =>
                /\ req'[r].pc = "done"
                /\ collections_meta' = collections_meta
                /\ Cardinality(Matching(collections_meta', req'[r].name)) = 1
          /\ CreateAfterExisting(r) => collections_meta' = collections_meta
      ]_vars

\* C12 witness: a second create_collection of "docs" has answered; the entry
\* still carries the description and time of the first and a count of chunks
C12_Witness ==
    \E r \in Reqs :
        /\ req[r].op = "create_collection" /\ req[r].pc = "done"
        /\ req[r].flash = "warning" /\ req[r].name = "docs"
        /\ Cardinality(Matching(collections_meta, "docs")) = 1
        /\ find_one(collections_meta, "docs").description = "papers"
        /\ find_one(collections_meta, "docs").created_at = 2
        /\ DocsCount(collections_meta, "docs") > 0

\* C13: when recreate_collection fails in create_collection the handler
\* still answers with success and without an exception, and the entry it
\* inserted stays in the registry with docs_count 0; the vector store is
\* as it was.
C13_RecreateFailureKeepsEntry ==
    [][\A r \in Reqs :
          (req[r].op = "create_collection" /\ At(r, "recreate")
              /\ req'[r].failed = "recreate_collection") =>
             /\ req'[r].pc = "done" /\ req'[r].raised = ""
             /\ req'[r].flash = "success"
             /\ collections_meta' = collections_meta
             /\ Registered(collections_meta', req[r].name)
             /\ DocsCount(collections_meta', req[r].name) = 0
             /\ qdrant' = qdrant
      ]_vars

\* C13 witness: create_collection has answered after recreate_collection
\* failed; the name is registered and has no vector collection
C13_Witness ==
    \E r \in Reqs :
        /\ req[r].op = "create_collection" /\ req[r].pc = "done"
        /\ req[r].failed = "recreate_collection"
        /\ Registered(collections_meta, req[r].name)
        /\ DocsCount(collections_meta, req[r].name) = 0
        /\ req[r].name \notin DOMAIN qdrant

\* C14: an upload whose extracted text is empty or whitespace only ends
\* right after the extraction with the warning "No text extracted from
\* file" and no exception, the index and the registry as they were; no
\* upload is at its embedding, upsert or increment with such a text.
C14_EmptyTextTouchesNothing ==
    [][\A r \in Reqs :
          /\ (Step(r)
                 /\ \/ /\ UploadAt(r, {"gridfs"}) /\ req'[r].failed = ""
                        /\ ~EndsWithPdf(req[r].filename)
                        /\ req[r].file.bytes.utf8
                        /\ StripIsEmpty(DecodeUtf8(req[r].file.bytes))
                    \/ /\ UploadAt(r, {"remove"}) /\ tempfile.exists
                        /\ StripIsEmpty(req[r].text)) =>
                /\ req'[r].pc = "done" /\ req'[r].raised = ""
                /\ req'[r].flash = "warning"
                /\ req'[r].message = "No text extracted from file"
                /\ qdrant' = qdrant
                /\ collections_meta' = collections_meta
          /\ UploadAt(r, {"embed", "upsert", "inc"}) => ~StripIsEmpty(req[r].text)
      ]_vars

\* C14 witness: an upload into a collection that holds points and has a
\* count has ended with the warning
C14_Witness ==
    \E r \in Reqs :
        /\ req[r].op = "upload" /\ req[r].pc = "done"
        /\ req[r].flash = "warning"
        /\ req[r].message = "No text extracted from file"
        /\ req[r].name \in DOMAIN qdrant
        /\ qdrant[req[r].name] # NoPoints
        /\ DocsCount(collections_meta, req[r].name) > 0

\* the name ends in ".pdf" or ".txt", in any case of the letters
HasAllowedExtension(filename) ==
    /\ Len(filename) >= 4
    /\ LowerStr(SubSeq(filename, Len(filename) - 3, Len(filename)))
           \in {<<".", "p", "d", "f">>, <<".", "t", "x", "t">>}

\* C15: an upload of a file whose extension is not pdf or txt ends in the
\* first step of the handler, with "File type not allowed" when the form is
\* complete and the registry answered, the index and the registry as they
\* were; no upload is at its storing, extraction, embedding, upsert or
\* increment with such a file.
C15_ExtensionRejectedFirst ==
    [][\A r \in Reqs :
          /\ (req[r].pc \in {"idle", "done"} /\ Step(r) /\ req'[r].op = "upload"
                 /\ req'[r].method = "POST" /\ req'[r].file # NoFile
                 /\ ~HasAllowedExtension(req'[r].file.filename)) =>
                /\ req'[r].pc = "done"
                /\ (req'[r].name # "" /\ req'[r].failed = "") =>
                       /\ req'[r].flash = "danger"
                       /\ req'[r].message = "File type not allowed"
                /\ qdrant' = qdrant
                /\ collections_meta' = collections_meta
          /\ Uploading(r) => HasAllowedExtension(req[r].file.filename)
      ]_vars

\* C15 witness: an upload into a registered collection has been answered
\* with "File type not allowed"
C15_Witness ==
    \E r \in Reqs :
        /\ req[r].op = "upload" /\ req[r].pc = "done"
        /\ req[r].flash = "danger"
        /\ req[r].message = "File type not allowed"
        /\ Registered(collections_meta, req[r].name)

Max(a, b) == IF a >= b THEN a ELSE b

\* C16: when a first upload of n1 chunks into a collection has succeeded
\* and nothing else was written to it, the upsert of a second upload of n2
\* chunks leaves the ids 0..max(n1, n2)-1 in the index: the ids below n2
\* carry the second upload's source and chunks, the others are the first
\* upload's points; its increment then leaves docs_count = n1 + n2 over
\* max(n1, n2) points.
C16_SecondIngestOverwrites ==
    [][\A r \in Reqs :
          LET c == req[r].name
              n2 == Len(req[r].documents)
              chunks == split_text(req[r].text)
          IN  /\ (UploadAt(r, {"upsert"}) /\ req'[r].pc = "inc"
                     /\ hist[c].index = "once" /\ hist[c].expected >= 1) =>
                    LET n1 == hist[c].expected
                    IN  /\ DOMAIN qdrant[c] = 0..(n1 - 1)
                        /\ DocsCount(collections_meta, c) = n1
                        /\ DOMAIN qdrant'[c] = 0..(Max(n1, n2) - 1)
                        /\ Cardinality(DOMAIN qdrant'[c]) < n1 + n2
                        /\ \A i \in 0..(n2 - 1) :
                              /\ qdrant'[c][i].id = i
                              /\ qdrant'[c][i].payload.source = req[r].filename
                              /\ qdrant'[c][i].payload.chunk = chunks[i + 1]
                        /\ \A i \in n2..(n1 - 1) : qdrant'[c][i] = qdrant[c][i]
              /\ (UploadAt(r, {"inc"}) /\ req'[r].flash = "success"
                     /\ hist[c].index = "twice" /\ hist[c].expected >= 1) =>
                    LET n1 == hist[c].expected
                    IN  /\ DocsCount(collections_meta', c) = n1 + n2
                        /\ DOMAIN qdrant'[c] = 0..(Max(n1, n2) - 1)
      ]_vars

\* C16 witness: an upload of three chunks and then one of one chunk into
\* "docs" have succeeded: three points, the first from the second upload,
\* and a count of four
C16_Witness ==
    \E r \in Reqs :
        /\ req[r].op = "upload" /\ req[r].pc = "done" /\ req[r].flash = "success"
        /\ req[r].name = "docs"
        /\ hist["docs"].index = "twice"
        /\ DocsCount(collections_meta, "docs") = 4
        /\ DOMAIN qdrant["docs"] = 0..2
        /\ qdrant["docs"][0].payload.source # qdrant["docs"][2].payload.source

\* the hits of the collections of cols whose search did not fail, each with
\* its payload, in the order of cols
RECURSIVE RawHits(_, _, _)
RawHits(cols, skipped, query) ==
    IF cols = <<>> THEN <<>>
    ELSE LET c == Head(cols).name
         IN  (IF c \in skipped \/ c \notin DOMAIN qdrant THEN <<>>
              ELSE search(qdrant, c, QueryVec(query), ALL_LIMIT))
             \o RawHits(Tail(cols), skipped, query)

\* the slot r has answered a search that found its collection or collections
Searched(r) ==
    \/ AllSearched(r)
    \/ /\ req[r].op = "index" /\ req[r].pc = "done"
       /\ req[r].query # "" /\ req[r].name \notin {"", "__all__"}
       /\ req[r].failed = "" /\ req[r].name \in DOMAIN qdrant

\* the hits behind the results of slot r, position by position
HitsBehind(r) ==
    IF req[r].name = "__all__"
    THEN FirstN(SortDesc(RawHits(req[r].cols, req[r].skipped, req[r].query)), ALL_TOP)
    ELSE search(qdrant, req[r].name, QueryVec(req[r].query), SINGLE_LIMIT)

\* C17 (as claimed): in a result of either search mode, the source is "N/A"
\* when the payload of the hit has no source and the chunk is "N/A" when it
\* has no chunk.
C17_MissingFieldsAreNA ==
    \A r \in Reqs :
        Searched(r) =>
           LET hits == HitsBehind(r)
               res == req[r].search_results
           IN  /\ Len(res) = Len(hits)
               /\ \A i \in DOMAIN res :
                     /\ "source" \notin DOMAIN hits[i].payload =>
                            res[i].source = NASource
                     /\ "chunk" \notin DOMAIN hits[i].payload =>
                            res[i].chunk = NAChunk

\* C17 (amended): in a result of either search mode, the source is "N/A"
\* when the payload of the hit has no source; when it has no chunk, the
\* chunk is the page_content of the payload, and "N/A" when it has no
\* page_content either; the search answers without an exception.
C17_MissingFieldsFallBack ==
    \A r \in Reqs :
        Searched(r) =>
           LET hits == HitsBehind(r)
               res == req[r].search_results
           IN  /\ req[r].raised = "" /\ req[r].flash = ""
               /\ Len(res) = Len(hits)
               /\ \A i \in DOMAIN res :
                     /\ res[i].score = hits[i].score
                     /\ "source" \notin DOMAIN hits[i].payload =>
                            res[i].source = NASource
                     /\ "chunk" \notin DOMAIN hits[i].payload =>
                            res[i].chunk =
                                IF "page_content" \in DOMAIN hits[i].payload
                                THEN hits[i].payload.page_content ELSE NAChunk

\* C17 witness: a search of all collections has answered with a result
\* whose source and chunk are "N/A" and one whose chunk is a page_content,
\* next to results of complete payloads
C17_Witness ==
    \E r \in Reqs :
        /\ AllSearched(r)
        /\ \E i, j, k \in DOMAIN req[r].search_results :
              LET res == req[r].search_results
              IN  /\ res[i].source = NASource /\ res[i].chunk = NAChunk
                  /\ res[j].source = NASource /\ res[j].chunk = LegacyText(2)
                  /\ res[k].source = TxtA

\* C18 (as claimed): the registry holds at most one entry of a name.
C18_NamesUnique ==
    \A i, j \in DOMAIN collections_meta :
        collections_meta[i].name = collections_meta[j].name => i = j

\* no handler is under way
Quiescent == \A r \in Reqs : req[r].pc \in {"idle", "done"}

\* the number of points the vector store holds for c
NumPoints(c) == IF c \in DOMAIN qdrant THEN Cardinality(DOMAIN qdrant[c]) ELSE 0

\* C19: with operations one at a time and every external call answering,
\* between operations docs_count of every registered collection is at
\* least the number of points its index holds.
C19_CountCoversPoints ==
    Quiescent =>
        \A i \in DOMAIN collections_meta :
            collections_meta[i].docs_count >= NumPoints(collections_meta[i].name)

\* C19 witness: "docs" was created, filled, cleared and filled again, and
\* its count is above the number of its points
C19_Witness ==
    /\ Quiescent
    /\ Registered(collections_meta, "docs")
    /\ hist["docs"].index = "dirty"
    /\ NumPoints("docs") >= 2
    /\ DocsCount(collections_meta, "docs") > NumPoints("docs")

\* C20 (as claimed): once a clear of C and an upload into C have both
\* succeeded, docs_count(C) is at least the number of points of C.
C20_ClearIngestConsistent ==
    \A c \in Names :
        (/\ \E r \in Reqs : /\ req[r].op = "clear_collection" /\ req[r].pc = "done"
                            /\ req[r].flash = "success" /\ req[r].name = c
         /\ \E r \in Reqs : /\ req[r].op = "upload" /\ req[r].pc = "done"
                            /\ req[r].flash = "success" /\ req[r].name = c
         /\ Registered(collections_meta, c))
           => DocsCount(collections_meta, c) >= NumPoints(c)

====
